---- MODULE Spec2Model ----
(***************************************************************************)
(* A model of the sublime-cli client: the rule/query file scanner          *)
(* (sublime.cli.helper.load_detections), the HTTP client (sublime.api)     *)
(* and the API-key selection of the CLI (sublime.cli.decorator).           *)
(*                                                                         *)
(* Python strings that are scanned character by character (the lines of a  *)
(* .pql file) are sequences of one-character strings; strings that are     *)
(* only compared or joined (URLs, keys, messages) are TLA+ strings.        *)
(***************************************************************************)
EXTENDS Integers, Sequences, FiniteSets, TLC

VARIABLES
    \* ---- load_detections (src/sublime/cli/helper.py) ----
    file,             \* the raw lines readline() has returned so far
    line,             \* the local `line`: the raw line being looked at, <<>> at end of file
    query,            \* parameter `query`
    ignore_errors,    \* parameter `ignore_errors`
    detections,       \* local `detections`
    detection_str,    \* local `detection_str`
    detection_name,   \* local `detection_name`
    comment_exists,   \* local `comment_exists`
    ld_pc,            \* position of the call: "idle", "loop", "done"
    ld_result         \* outcome of the call

ldvars == <<file, line, query, ignore_errors, detections, detection_str,
            detection_name, comment_exists, ld_pc, ld_result>>

VARIABLES
    \* ---- the process environment and the configuration file ----
    environ,          \* os.environ: the variables the code reads
    config_file,      \* the [sublime] section of ~/.config/sublime/setup.cfg
    \* ---- a CLI command (src/sublime/cli/decorator.py) ----
    api_key_option,   \* context.params["api_key"]: the -k/--api-key option
    cli_pc,           \* "start", "command" (the subcommand runs), "sdk", "exited"
    exit_code,        \* the code passed to context.exit
    \* ---- the Sublime client (src/sublime/api.py) ----
    api_key,          \* self.api_key
    request,          \* the HTTP request in flight, NoRequest when there is none
    response,         \* the HTTP response to the last request, NoResponse until it arrives
    num_requests,     \* how many HTTP requests have been sent
    req_result        \* outcome of the last _request call

apivars == <<environ, config_file, api_key_option, cli_pc, exit_code,
             api_key, request, response, num_requests, req_result>>

VARIABLES
    \* ---- setup, save_config and request_permission (src/sublime/util.py) ----
    cfg_call,         \* the last of these calls: its name and the `config` it passed
    cfg_outcome,      \* how that call ended: "saved", "exit", "abort", "return"; "none" before
    cfg_echo,         \* the messages that call printed with click.echo
    prompted,         \* whether that call showed the privacy confirmation
    accepted,         \* whether the user has answered yes to a confirmation so far
    num_config_calls  \* how many of these calls have been made

cfgvars == <<cfg_call, cfg_outcome, cfg_echo, prompted, accepted, num_config_calls>>

VARIABLES
    \* ---- a result-printing command under echo_result (src/sublime/cli/decorator.py) ----
    command,          \* context.parent.command.name and context.command.name
    params,           \* context.params: the options echo_result reads
    echo_pc,          \* "idle" before the command runs, "done" after
    echo_out          \* what the wrapper did: formatter found, files written, or the exception

echovars == <<command, params, echo_pc, echo_out>>

VARIABLES
    \* ---- the analyze command (src/sublime/cli/subcommand.py) ----
    an_args,          \* the command line: input file, -D, -d, -v
    an_pc,            \* "idle", "waiting" (request sent), "done"
    an_sent,          \* the request analyze sent: its endpoint and JSON body
    an_outcome        \* how the command body ended

anvars == <<an_args, an_pc, an_sent, an_outcome>>

VARIABLES
    \* ---- load_mbox (src/sublime/util.py) ----
    mbox,             \* the messages of the mailbox, in order
    mb_index,         \* how many messages the loop has gone through
    raw_messages,     \* the dict being built: key -> the message encoded under it
    mb_pc             \* "idle", "loop", "done"

mboxvars == <<mbox, mb_index, raw_messages, mb_pc>>

VARIABLES
    \* ---- load_yml (src/sublime/util.py) ----
    yml_file,         \* what yaml.load gives for the file, or no file
    yml_ignore,       \* the ignore_errors argument
    yml_pc,           \* "idle", "called", "done"
    yml_result        \* how the call ended

ymlvars == <<yml_file, yml_ignore, yml_pc, yml_result>>

\* the variables beyond the scanner's and the client's
restvars == <<cfgvars, echovars, anvars, mboxvars, ymlvars>>

vars == <<ldvars, apivars, restvars>>

(***************************************************************************)
(* Bounds                                                                  *)
(***************************************************************************)
\* longest file, in lines, that the scanner is run on
MaxLines == 4

\* most HTTP requests one client sends
MaxRequests == 2

(***************************************************************************)
(* Python values                                                           *)
(***************************************************************************)
\* Python's None where the other values are character sequences
None == <<"<None>">>

\* str.strip() without argument removes these characters
Whitespace == {" ", "\t", "\n", "\r"}

RECURSIVE lstrip(_, _)
lstrip(s, chars) ==
    IF s # <<>> /\ Head(s) \in chars THEN lstrip(Tail(s), chars) ELSE s

RECURSIVE rstrip(_, _)
rstrip(s, chars) ==
    IF s # <<>> /\ s[Len(s)] \in chars
    THEN rstrip(SubSeq(s, 1, Len(s) - 1), chars)
    ELSE s

\* str.strip(chars): both ends
strip(s, chars) == rstrip(lstrip(s, chars), chars)

\* str.startswith for a one-character prefix
startswith(s, c) == s # <<>> /\ Head(s) = c

(***************************************************************************)
(* Exceptions: which names a module can raise                              *)
(***************************************************************************)
\* the classes sublime/error.py defines
ErrorModuleNames ==
    {"SublimeError", "InvalidRequestError", "RateLimitError", "APIError",
     "AuthenticationError", "LoadRuleError", "LoadMessageDataModelError",
     "LoadEMLError", "LoadMSGError", "LoadMBOXError"}

\* the classes sublime/exceptions.py defines
ExceptionsModuleNames ==
    {"SublimeError", "InvalidRequestError", "RateLimitError", "APIError",
     "WebSocketError", "JobError", "LoadDetectionError"}

\* helper.py gets its exception names from `from sublime.error import *`
HelperGlobals == ErrorModuleNames

\* `raise Name(...)` inside helper.py: an unbound global name is a NameError
HelperRaise(name) == IF name \in HelperGlobals THEN name ELSE "NameError"

(***************************************************************************)
(* Outcomes of a call                                                      *)
(***************************************************************************)
Returned(list) == [kind |-> "return", value |-> list, exc |-> "", message |-> ""]
Raised(exc, msg) == [kind |-> "raise", value |-> <<>>, exc |-> exc, message |-> msg]
Exited == [kind |-> "exit", value |-> <<>>, exc |-> "SystemExit", message |-> ""]
NoResult == [kind |-> "none", value |-> <<>>, exc |-> "", message |-> ""]


\* no load_detections call is under way
LdIdle ==
    /\ file = <<>>
    /\ line = <<>>
    /\ query = FALSE
    /\ ignore_errors = FALSE
    /\ detections = <<>>
    /\ detection_str = <<>>
    /\ detection_name = <<>>
    /\ comment_exists = FALSE
    /\ ld_pc = "idle"
    /\ ld_result = NoResult

(***************************************************************************)
(* The environment and the configuration file (src/sublime/util.py)        *)
(***************************************************************************)
\* Python's None where the other values are strings
Null == "<None>"

\* an environment variable that is not set
Unset == "<unset>"

DEFAULT_CONFIG == [api_key |-> "", save_dir |-> "", permission |-> ""]

\* no configuration file
NoConfigFile == [exists |-> FALSE, sublime |-> DEFAULT_CONFIG, emailrep |-> Unset]

\* a configuration file with these options in its [sublime] section and no
\* [emailrep] section
ConfigFile(options) == [exists |-> TRUE, sublime |-> options, emailrep |-> Unset]

\* load_config with the file's api_key taking precedence over the environment
load_config_FileFirst(cfg, env) ==
    LET parsed == IF cfg.exists THEN cfg.sublime ELSE DEFAULT_CONFIG
    IN  [api_key |-> IF parsed.api_key # "" \/ env.SUBLIME_API_KEY = Unset
                     THEN parsed.api_key ELSE env.SUBLIME_API_KEY,
         save_dir |-> IF env.SUBLIME_SAVE_DIR # Unset
                      THEN env.SUBLIME_SAVE_DIR ELSE parsed.save_dir,
         permission |-> parsed.permission]

\* load_config(): defaults, then the file, then the environment
load_config(cfg, env) ==
    LET parsed == IF cfg.exists THEN cfg.sublime ELSE DEFAULT_CONFIG
    IN  [api_key |-> IF env.SUBLIME_API_KEY # Unset
                     THEN env.SUBLIME_API_KEY ELSE parsed.api_key,
         save_dir |-> IF env.SUBLIME_SAVE_DIR # Unset
                      THEN env.SUBLIME_SAVE_DIR ELSE parsed.save_dir,
         permission |-> parsed.permission]

\* the `config` dict of a save_config call: Unset for a key that is not in it
ConfigKeys == {"api_key", "save_dir", "permission"}
NoConfigArgs == [api_key |-> Unset, save_dir |-> Unset, permission |-> Unset]

\* no setup, save_config or request_permission call yet
NoCfgCall == [op |-> "none", config |-> NoConfigArgs]

CfgIdle ==
    /\ cfg_call = NoCfgCall
    /\ cfg_outcome = "none"
    /\ cfg_echo = {}
    /\ prompted = FALSE
    /\ accepted = FALSE
    /\ num_config_calls = 0

\* no command has run under echo_result
NoCommand == [group |-> "", name |-> ""]
NoParams == [output_format |-> "", output_file |-> None, input_file |-> None,
             verbose |-> FALSE, message_data_model_id |-> FALSE]
NoEcho == [kind |-> "none", exc |-> "", formatter |-> "", writes |-> <<>>]

EchoIdle ==
    /\ command = NoCommand
    /\ params = NoParams
    /\ echo_pc = "idle"
    /\ echo_out = NoEcho

\* no analyze command line
NoAnalyzeArgs ==
    [input_file |-> None, input_ok |-> FALSE, detections_path |-> "none",
     pql_files |-> <<>>, detection_str |-> None, verbose |-> FALSE]
NoSent == [endpoint |-> "", multi |-> FALSE, detections |-> <<>>, response_type |-> ""]

AnalyzeIdle ==
    /\ an_args = NoAnalyzeArgs
    /\ an_pc = "idle"
    /\ an_sent = NoSent
    /\ an_outcome = NoResult

\* no load_mbox call is under way
MboxIdle ==
    /\ mbox = <<>>
    /\ mb_index = 0
    /\ raw_messages = {}
    /\ mb_pc = "idle"

\* no load_yml call is under way
NoYmlResult == [kind |-> "none", exc |-> "", rules |-> <<>>, queries |-> <<>>]

YmlIdle ==
    /\ yml_file = [t |-> "nofile"]
    /\ yml_ignore = TRUE
    /\ yml_pc = "idle"
    /\ yml_result = NoYmlResult

RestIdle == CfgIdle /\ EchoIdle /\ AnalyzeIdle /\ MboxIdle /\ YmlIdle

(***************************************************************************)
(* The HTTP client (src/sublime/api.py)                                    *)
(***************************************************************************)
\* the class attribute BASE_URL: the environment's value unless empty
BASE_URL(env) ==
    IF env.BASE_URL # Unset /\ env.BASE_URL # ""
    THEN env.BASE_URL
    ELSE "https://api.sublimesecurity.com"

API_VERSION == "v1"

\* str.format on a template with one placeholder, kept as <<before, after>>
format(template, x) == template[1] \o x \o template[2]

EP_MESSAGE_ANALYZE == "message/analyze"
EP_MESSAGE_ANALYZE_MULTI == "message/analyze/multi"
EP_MESSAGE_ENRICH == "message/enrich"
EP_MESSAGE_CREATE == "message/create"
EP_MODEL_ANALYZE == "model/analyze"
EP_MODEL_ANALYZE_MULTI == "model/analyze/multi"
EP_MODEL_QUERY == "model/query"
EP_MODEL_QUERY_MULTI == "model/query/multi"
EP_COMMUNITY_DETECTIONS == "community/detections"
EP_COMMUNITY_DETECTION_BY_ID == <<"community/detections/", "">>
EP_COMMUNITY_DETECTION_BY_NAME == <<"community/detections/name/", "">>
EP_SUBSCRIBE_DETECTION_BY_ID == <<"community/detections/", "/subscribe">>
EP_SUBSCRIBE_DETECTION_BY_NAME == <<"community/detections/name/", "/subscribe">>
EP_UNSUBSCRIBE_DETECTION_BY_ID == <<"community/detections/", "/unsubscribe">>
EP_UNSUBSCRIBE_DETECTION_BY_NAME == <<"community/detections/name/", "/unsubscribe">>
EP_ORG_DETECTIONS == "org/detections"
EP_ORG_DETECTION_BY_ID == <<"org/detections/", "">>
EP_ORG_DETECTION_BY_NAME == <<"org/detections/name/", "">>
EP_SHARE_ORG_DETECTION_BY_ID == <<"org/detections/", "/share">>
EP_SHARE_ORG_DETECTION_BY_NAME == <<"org/detections/name/", "/share">>
EP_UNSHARE_ORG_DETECTION_BY_ID == <<"org/detections/", "/unshare">>
EP_UNSHARE_ORG_DETECTION_BY_NAME == <<"org/detections/name/", "/unshare">>
EP_ADMIN_ACTION_REVIEW == <<"actions/admin/review/", "">>
EP_ADMIN_ACTION_REVIEW_ALL == "actions/admin/review/multi/all"
EP_ADMIN_ACTION_DELETE == <<"actions/admin/delete/", "">>
EP_GET_ME == "org/sublime-users/me"
EP_GET_ORG == "org"
EP_GET_USERS == "org/users"
EP_FLAGGED_MESSAGES == "org/flagged-messages"
EP_FLAGGED_MESSAGES_DETAIL == <<"org/flagged-messages/", "/detail">>
EP_SEND_MOCK_TUTORIAL_ONE == "org/sublime-users/mock-tutorial-one"
EP_UPDATE_USER_LICENSE == <<"org/users/email/", "/license">>
EP_BACKTEST_DETECTIONS == "org/detections/backtest/multi"
EP_GET_JOB_STATUS == <<"jobs/", "/status">>
EP_GET_JOB_OUTPUT == <<"jobs/", "/output">>
EP_NOT_IMPLEMENTED == <<"request/", "">>

ApiMethods ==
    {"analyze_mdm_multi", "analyze_mdm", "query_mdm_multi",
     "query_mdm", "create_mdm", "enrich_eml",
     "analyze_eml", "analyze_eml_multi", "create_org_detection",
     "update_org_detection", "update_org_detection_by_name", "share_org_detection",
     "share_org_detection_by_name", "unshare_org_detection", "unshare_org_detection_by_name",
     "subscribe_community_detection", "subscribe_community_detection_by_name", "unsubscribe_community_detection",
     "unsubscribe_community_detection_by_name", "get_me", "get_org",
     "get_org_detections", "get_org_detection", "get_org_detection_by_name",
     "get_community_detections", "get_community_detection", "get_community_detection_by_name",
     "get_flagged_messages", "get_flagged_message_detail", "review_message",
     "review_all_messages", "send_mock_tutorial_one", "backtest_detections",
     "update_user_license", "get_users", "get_job_status",
     "get_job_output", "delete_model_external_message", "not_implemented"}

\* the endpoint each method computes; x is the argument it formats in
EndpointOf(method, x) ==
    CASE method = "analyze_mdm_multi" -> EP_MODEL_ANALYZE_MULTI
      [] method = "analyze_mdm" -> EP_MODEL_ANALYZE
      [] method = "query_mdm_multi" -> EP_MODEL_QUERY_MULTI
      [] method = "query_mdm" -> EP_MODEL_QUERY
      [] method = "create_mdm" -> EP_MESSAGE_CREATE
      [] method = "enrich_eml" -> EP_MESSAGE_ENRICH
      [] method = "analyze_eml" -> EP_MESSAGE_ANALYZE
      [] method = "analyze_eml_multi" -> EP_MESSAGE_ANALYZE_MULTI
      [] method = "create_org_detection" -> EP_ORG_DETECTIONS
      [] method = "update_org_detection" -> format(EP_ORG_DETECTION_BY_ID, x)
      [] method = "update_org_detection_by_name" -> format(EP_ORG_DETECTION_BY_NAME, x)
      [] method = "share_org_detection" -> format(EP_SHARE_ORG_DETECTION_BY_ID, x)
      [] method = "share_org_detection_by_name" -> format(EP_SHARE_ORG_DETECTION_BY_NAME, x)
      [] method = "unshare_org_detection" -> format(EP_UNSHARE_ORG_DETECTION_BY_ID, x)
      [] method = "unshare_org_detection_by_name" -> format(EP_UNSHARE_ORG_DETECTION_BY_NAME, x)
      [] method = "subscribe_community_detection" -> format(EP_SUBSCRIBE_DETECTION_BY_ID, x)
      [] method = "subscribe_community_detection_by_name" -> format(EP_SUBSCRIBE_DETECTION_BY_NAME, x)
      [] method = "unsubscribe_community_detection" -> format(EP_UNSUBSCRIBE_DETECTION_BY_ID, x)
      [] method = "unsubscribe_community_detection_by_name" -> format(EP_UNSUBSCRIBE_DETECTION_BY_NAME, x)
      [] method = "get_me" -> EP_GET_ME
      [] method = "get_org" -> EP_GET_ORG
      [] method = "get_org_detections" -> EP_ORG_DETECTIONS
      [] method = "get_org_detection" -> format(EP_ORG_DETECTION_BY_ID, x)
      [] method = "get_org_detection_by_name" -> format(EP_ORG_DETECTION_BY_NAME, x)
      [] method = "get_community_detections" -> EP_COMMUNITY_DETECTIONS
      [] method = "get_community_detection" -> format(EP_COMMUNITY_DETECTION_BY_ID, x)
      [] method = "get_community_detection_by_name" -> format(EP_COMMUNITY_DETECTION_BY_NAME, x)
      [] method = "get_flagged_messages" -> EP_FLAGGED_MESSAGES
      [] method = "get_flagged_message_detail" -> format(EP_FLAGGED_MESSAGES_DETAIL, x)
      [] method = "review_message" -> format(EP_ADMIN_ACTION_REVIEW, x)
      [] method = "review_all_messages" -> EP_ADMIN_ACTION_REVIEW_ALL
      [] method = "send_mock_tutorial_one" -> EP_SEND_MOCK_TUTORIAL_ONE
      [] method = "backtest_detections" -> EP_BACKTEST_DETECTIONS
      [] method = "update_user_license" -> format(EP_UPDATE_USER_LICENSE, x)
      [] method = "get_users" -> EP_GET_USERS
      [] method = "get_job_status" -> format(EP_GET_JOB_STATUS, x)
      [] method = "get_job_output" -> format(EP_GET_JOB_OUTPUT, x)
      [] method = "delete_model_external_message" -> format(EP_ADMIN_ACTION_DELETE, x)
      [] method = "not_implemented" -> format(EP_NOT_IMPLEMENTED, x)

\* the request_type each method passes to _request
RequestTypeOf(method) ==
    CASE method = "analyze_mdm_multi" -> "POST"
      [] method = "analyze_mdm" -> "POST"
      [] method = "query_mdm_multi" -> "POST"
      [] method = "query_mdm" -> "POST"
      [] method = "create_mdm" -> "POST"
      [] method = "enrich_eml" -> "POST"
      [] method = "analyze_eml" -> "POST"
      [] method = "analyze_eml_multi" -> "POST"
      [] method = "create_org_detection" -> "POST"
      [] method = "update_org_detection" -> "PATCH"
      [] method = "update_org_detection_by_name" -> "PATCH"
      [] method = "share_org_detection" -> "POST"
      [] method = "share_org_detection_by_name" -> "POST"
      [] method = "unshare_org_detection" -> "POST"
      [] method = "unshare_org_detection_by_name" -> "POST"
      [] method = "subscribe_community_detection" -> "POST"
      [] method = "subscribe_community_detection_by_name" -> "POST"
      [] method = "unsubscribe_community_detection" -> "POST"
      [] method = "unsubscribe_community_detection_by_name" -> "POST"
      [] method = "get_me" -> "GET"
      [] method = "get_org" -> "GET"
      [] method = "get_org_detections" -> "GET"
      [] method = "get_org_detection" -> "GET"
      [] method = "get_org_detection_by_name" -> "GET"
      [] method = "get_community_detections" -> "GET"
      [] method = "get_community_detection" -> "GET"
      [] method = "get_community_detection_by_name" -> "GET"
      [] method = "get_flagged_messages" -> "GET"
      [] method = "get_flagged_message_detail" -> "GET"
      [] method = "review_message" -> "POST"
      [] method = "review_all_messages" -> "POST"
      [] method = "send_mock_tutorial_one" -> "POST"
      [] method = "backtest_detections" -> "POST"
      [] method = "update_user_license" -> "PATCH"
      [] method = "get_users" -> "GET"
      [] method = "get_job_status" -> "GET"
      [] method = "get_job_output" -> "GET"
      [] method = "delete_model_external_message" -> "DELETE"
      [] method = "not_implemented" -> "GET"

\* Python values a response body can be
PyDict(members) == [t |-> "dict", members |-> members, s |-> ""]
PyStr(str) == [t |-> "str", members |-> [none |-> Null], s |-> str]
PyList == [t |-> "list", members |-> [none |-> Null], s |-> ""]
PyNone == [t |-> "None", members |-> [none |-> Null], s |-> ""]

\* value[key]: the item, or the exception the subscript raises
GetItem(value, key) ==
    IF value.t = "dict"
    THEN IF key \in DOMAIN value.members
         THEN [exc |-> "", item |-> value.members[key]]
         ELSE [exc |-> "KeyError", item |-> PyNone]
    ELSE [exc |-> "TypeError", item |-> PyNone]

\* what a server can put in a response body: JSON text with its value, or
\* text that is not JSON
JsonPayload(value) == [is_json |-> TRUE, value |-> value, text |-> "<json>"]
TextPayload(text) == [is_json |-> FALSE, value |-> PyNone, text |-> text]

Payloads ==
    { JsonPayload(PyDict([error |-> PyDict([message |-> PyStr("bad request")])])),
      JsonPayload(PyDict([error |-> PyDict([code |-> PyStr("E1")])])),
      JsonPayload(PyDict([error |-> PyStr("bad request")])),
      JsonPayload(PyDict([detail |-> PyStr("x")])),
      JsonPayload(PyList),
      JsonPayload(PyNone),
      TextPayload("<html>"),
      TextPayload("") }

StatusCodes == {200, 204, 400, 404, 429, 500}

ContentTypes == {"application/json", "text/html", Unset}

Responses == [status_code : StatusCodes, content_type : ContentTypes, payload : Payloads]

NoResponse == [status_code |-> 0, content_type |-> Unset, payload |-> TextPayload("")]

NoRequest == [endpoint |-> "", method |-> "", url |-> "", headers |-> [Key |-> Null]]

\* `"application/json" in response.headers.get("Content-Type", "")`
IsJsonContentType(ct) == ct = "application/json"

\* outcomes of _request
ReqReturned(body) ==
    [kind |-> "return", exc |-> "", status_code |-> 0, message |-> PyNone, body |-> body]
ReqRaised(exc, status_code, message) ==
    [kind |-> "raise", exc |-> exc, status_code |-> status_code,
     message |-> message, body |-> PyNone]
NoReqResult ==
    [kind |-> "none", exc |-> "", status_code |-> 0, message |-> PyNone, body |-> PyNone]

\* the local `body` of _request, or the exception response.json() raises
ResponseBody(resp) ==
    IF IsJsonContentType(resp.content_type)
    THEN IF resp.status_code # 204
         THEN IF resp.payload.is_json
              THEN [exc |-> "", item |-> resp.payload.value]
              ELSE [exc |-> "JSONDecodeError", item |-> PyNone]
         ELSE [exc |-> "", item |-> PyNone]
    ELSE [exc |-> "", item |-> PyStr(resp.payload.text)]

\* handle_error_response that treats only 400 as an invalid request
handle_error_response_Only400(status_code, resp_body) ==
    LET error_data == GetItem(resp_body, "error")
        message == GetItem(error_data.item, "message")
    IN  IF error_data.exc # ""
        THEN ReqRaised("APIError", status_code, PyStr("Invalid response from API"))
        ELSE IF message.exc # ""
        THEN ReqRaised(message.exc, 0, PyNone)
        ELSE IF status_code = 400
        THEN ReqRaised("InvalidRequestError", status_code, message.item)
        ELSE IF status_code = 429
        THEN ReqRaised("RateLimitError", status_code, message.item)
        ELSE ReqRaised("APIError", status_code, message.item)

\* handle_error_response always raises
handle_error_response(status_code, resp_body) ==
    LET error_data == GetItem(resp_body, "error")
        message == GetItem(error_data.item, "message")
    IN  IF error_data.exc # ""
        THEN ReqRaised("APIError", status_code, PyStr("Invalid response from API"))
        ELSE IF message.exc # ""
        THEN ReqRaised(message.exc, 0, PyNone)
        ELSE IF status_code \in {400, 404}
        THEN ReqRaised("InvalidRequestError", status_code, message.item)
        ELSE IF status_code = 429
        THEN ReqRaised("RateLimitError", status_code, message.item)
        ELSE ReqRaised("APIError", status_code, message.item)

\* _request from the response on
RequestOutcome(resp) ==
    LET body == ResponseBody(resp)
    IN  IF body.exc # ""
        THEN ReqRaised(body.exc, 0, PyNone)
        ELSE IF resp.status_code >= 400
        THEN handle_error_response(resp.status_code, body.item)
        ELSE ReqReturned(body.item)

\* the URL without the API version
RequestUrl_NoVersion(env, endpoint) == BASE_URL(env) \o "/" \o endpoint

\* the request _request sends
RequestUrl(env, endpoint) == BASE_URL(env) \o "/" \o API_VERSION \o "/" \o endpoint
RequestHeaders(key) == [Key |-> key]

SupportedRequestTypes == {"GET", "POST", "PATCH", "DELETE"}

Ids == {"id1"}

\* no CLI command and no client yet
ApiIdle ==
    /\ api_key_option = Null
    /\ cli_pc = "start"
    /\ exit_code = 0
    /\ api_key = Null
    /\ request = NoRequest
    /\ response = NoResponse
    /\ num_requests = 0
    /\ req_result = NoReqResult

\* Sublime(api_key=k), as a program using the package calls it
SublimeInit ==
    /\ cli_pc = "start"
    /\ api_key_option = Null
    /\ \E k \in {Null, "sdkkey"} :
          api_key' = IF k = Null THEN load_config(config_file, environ).api_key ELSE k
    /\ cli_pc' = "sdk"
    /\ UNCHANGED <<environ, config_file, api_key_option, exit_code, request,
                   response, num_requests, req_result>>
    /\ UNCHANGED <<ldvars, restvars>>

\* the pass_api_client wrapper of a CLI command
PassApiClient ==
    /\ cli_pc = "start"
    /\ LET config == load_config(config_file, environ)
       IN  IF api_key_option = Null /\ config.api_key = ""
           THEN /\ cli_pc' = "exited"
                /\ exit_code' = -1
                /\ UNCHANGED api_key
           ELSE /\ api_key' = IF api_key_option = Null THEN config.api_key
                                                       ELSE api_key_option
                /\ cli_pc' = "command"
                /\ UNCHANGED exit_code
    /\ UNCHANGED <<environ, config_file, api_key_option, request, response,
                   num_requests, req_result>>
    /\ UNCHANGED <<ldvars, restvars>>

\* one client method up to the point where _request has sent the request
ClientCall ==
    /\ cli_pc \in {"command", "sdk"}
    /\ request = NoRequest
    /\ num_requests < MaxRequests
    /\ \E method \in ApiMethods, x \in Ids :
          LET endpoint == EndpointOf(method, x)
          IN  request' = [endpoint |-> endpoint,
                          method |-> RequestTypeOf(method),
                          url |-> RequestUrl(environ, endpoint),
                          headers |-> RequestHeaders(api_key)]
    /\ num_requests' = num_requests + 1
    /\ response' = NoResponse
    /\ req_result' = NoReqResult
    /\ UNCHANGED <<environ, config_file, api_key_option, cli_pc, exit_code, api_key>>
    /\ UNCHANGED <<ldvars, restvars>>

\* the response arrives: the rest of _request, which returns the body or raises
ReceiveResponse ==
    /\ request # NoRequest
    /\ \E resp \in Responses :
          /\ response' = resp
          /\ req_result' = RequestOutcome(resp)
    /\ request' = NoRequest
    /\ UNCHANGED <<environ, config_file, api_key_option, cli_pc, exit_code, api_key,
                   num_requests>>
    /\ UNCHANGED <<ldvars, restvars>>

\* _request with a request_type it does not know: nothing is sent
RequestNotImplemented ==
    /\ cli_pc = "sdk"
    /\ request = NoRequest
    /\ \E request_type \in {"PUT", "HEAD"} :
          /\ request_type \notin SupportedRequestTypes
          /\ req_result' = ReqRaised("Exception", 0, PyStr("not implemented"))
    /\ response' = NoResponse
    /\ UNCHANGED <<environ, config_file, api_key_option, cli_pc, exit_code, api_key,
                   request, num_requests>>
    /\ UNCHANGED <<ldvars, restvars>>

Environs ==
    [SUBLIME_API_KEY : {Unset, "", "envkey"},
     SUBLIME_SAVE_DIR : {Unset},
     BASE_URL : {Unset, "", "http://localhost:8000"}]

ConfigFiles ==
    {NoConfigFile} \cup
    {ConfigFile([api_key |-> k, save_dir |-> "", permission |-> ""]) : k \in {"", "filekey"}}

ApiInit ==
    /\ environ \in Environs
    /\ config_file \in ConfigFiles
    /\ api_key_option \in {Null, "", "optkey"}
    /\ cli_pc = "start"
    /\ exit_code = 0
    /\ api_key = Null
    /\ request = NoRequest
    /\ response = NoResponse
    /\ num_requests = 0
    /\ req_result = NoReqResult
    /\ LdIdle
    /\ RestIdle

ApiNext ==
    \/ SublimeInit
    \/ PassApiClient
    \/ ClientCall
    \/ ReceiveResponse
    \/ RequestNotImplemented

SpecApi == ApiInit /\ [][ApiNext]_vars

(***************************************************************************)
(* Properties of the HTTP client and of the API-key selection              *)
(***************************************************************************)
\* a response to the last request has been handled by _request
Responded == response # NoResponse

\* the body _request parsed is an object with an "error" object with a "message"
HasErrorMessage(resp) ==
    /\ IsJsonContentType(resp.content_type)
    /\ resp.payload.is_json
    /\ resp.payload.value.t = "dict"
    /\ "error" \in DOMAIN resp.payload.value.members
    /\ resp.payload.value.members.error.t = "dict"
    /\ "message" \in DOMAIN resp.payload.value.members.error.members

ErrorCategory(status_code) ==
    IF status_code = 400 \/ status_code = 404 THEN "InvalidRequestError"
    ELSE IF status_code = 429 THEN "RateLimitError"
    ELSE "APIError"

\* C1: a response with status >= 400 whose body holds error.message raises
\* InvalidRequestError for 400 and 404, RateLimitError for 429 and APIError
\* otherwise, and the error carries the status code and the message.
C1_StatusToErrorCategory ==
    (Responded /\ response.status_code >= 400 /\ HasErrorMessage(response)) =>
        /\ req_result.kind = "raise"
        /\ req_result.exc = ErrorCategory(response.status_code)
        /\ req_result.status_code = response.status_code
        /\ req_result.message = response.payload.value.members.error.members.message

\* a 404 with an error message was mapped
C1_Witness ==
    /\ Responded
    /\ response.status_code = 404
    /\ HasErrorMessage(response)
    /\ req_result.exc = "InvalidRequestError"
    /\ req_result.message = PyStr("bad request")

\* C2 as stated: whatever the body of a response with status >= 400, _request
\* returns nothing and raises InvalidRequestError, RateLimitError or APIError.
C2_OnlyApiErrors ==
    (Responded /\ response.status_code >= 400) =>
        /\ req_result.kind = "raise"
        /\ req_result.exc \in {"InvalidRequestError", "RateLimitError", "APIError"}

\* C3: every request sent goes to BASE_URL/v1/endpoint with the client's
\* api_key in its Key header, and no client operation changes the api_key.
C3_RequestsAreAuthenticated ==
    /\ [](request # NoRequest =>
            /\ \E method \in ApiMethods, x \in Ids :
                  request.url = BASE_URL(environ) \o "/v1/" \o EndpointOf(method, x)
            /\ request.url = BASE_URL(environ) \o "/v1/" \o request.endpoint
            /\ request.headers.Key = api_key)
    /\ [][(cli_pc \in {"command", "sdk"}) => (api_key' = api_key)]_vars

\* a client that has already handled one request has sent a second one
C3_Witness ==
    /\ request # NoRequest
    /\ num_requests = 2
    /\ api_key = "sdkkey"
    /\ environ.BASE_URL = "http://localhost:8000"

\* the key the order of precedence gives: option, environment, file
KeyByPrecedence ==
    IF api_key_option # Null THEN api_key_option
    ELSE IF environ.SUBLIME_API_KEY # Unset THEN environ.SUBLIME_API_KEY
    ELSE IF config_file.exists THEN config_file.sublime.api_key
    ELSE ""

NoKeyProvided ==
    /\ api_key_option = Null
    /\ environ.SUBLIME_API_KEY \in {Unset, ""}
    /\ ~config_file.exists \/ config_file.sublime.api_key = ""

\* C10: a CLI command runs with the key the order of precedence gives
\* (option, then environment variable, then configuration file), and with no
\* key from any of the three it exits with a failure status without sending
\* a request.
C10_ApiKeyPrecedence ==
    /\ cli_pc = "command" =>
          /\ api_key = KeyByPrecedence
          /\ request # NoRequest => request.headers.Key = KeyByPrecedence
    /\ (cli_pc \in {"command", "exited"} /\ NoKeyProvided) => cli_pc = "exited"
    /\ cli_pc = "exited" => exit_code # 0 /\ num_requests = 0 /\ request = NoRequest

\* without the option, the environment's key was sent although the file has one
C10_Witness ==
    /\ cli_pc = "command"
    /\ api_key_option = Null
    /\ environ.SUBLIME_API_KEY = "envkey"
    /\ config_file.exists /\ config_file.sublime.api_key = "filekey"
    /\ request # NoRequest
    /\ request.headers.Key = "envkey"

\* with no key anywhere the command has exited
C10_WitnessExit ==
    cli_pc = "exited" /\ NoKeyProvided /\ exit_code = -1

(***************************************************************************)
(* load_detections                                                         *)
(***************************************************************************)
create_query(query_str, query_name) ==
    [text |-> IF query_str # <<>> THEN strip(query_str, Whitespace) ELSE None,
     name |-> IF query_name # <<>> THEN strip(query_name, Whitespace) ELSE None,
     type |-> "query"]

\* the record; type "exit" where the function calls sys.exit(-1) instead
\* (detection_id is never passed by load_detections, so "id" is always None)
create_simple_detection(d_str, d_name) ==
    LET s == IF d_str # <<>> THEN strip(d_str, Whitespace) ELSE None
        n == IF d_name # <<>> THEN strip(d_name, Whitespace) ELSE None
    IN  [text |-> s, name |-> n,
         type |-> IF (s = None \/ s = <<>>) /\ (n = None \/ n = <<>>)
                  THEN "exit" ELSE "detection"]

\* the two branches that build a record from the locals
CreateRecord(q, d_str, d_name) ==
    IF q THEN create_query(d_str, d_name)
         ELSE create_simple_detection(d_str, d_name)

\* the message of a block that has a name and no detection text
NameOnlyMessage(commented) ==
    IF commented THEN "This rule is commented out and may require customization"
                 ELSE "Missing detection"

\* the locals of load_detections as one value
Locals(dets, d_str, d_name, commented, res) ==
    [detections |-> dets, detection_str |-> d_str, detection_name |-> d_name,
     comment_exists |-> commented, result |-> res]

InitialLocals == Locals(<<>>, <<>>, <<>>, FALSE, NoResult)

\* the two strip calls at the top of the loop body
StripLine(raw) == strip(strip(raw, {"\n"}), Whitespace)

\* the name a ';' line gives
StripName(stripped) == strip(strip(stripped, {";"}), Whitespace)

\* the end of a detection that forgets to reset detection_str
EndOfDetection_KeepsText(st, q, ig) ==
    IF st.detection_str # <<>>
    THEN LET d == CreateRecord(q, st.detection_str, st.detection_name)
         IN  IF d.type = "exit"
             THEN [st EXCEPT !.result = Exited]
             ELSE Locals(Append(st.detections, d), st.detection_str, <<>>, FALSE, NoResult)
    ELSE IF st.detection_name # <<>> /\ ~ig
         THEN [st EXCEPT !.result =
                  Raised(HelperRaise("LoadDetectionError"),
                         NameOnlyMessage(st.comment_exists))]
         ELSE Locals(st.detections, <<>>, <<>>, FALSE, NoResult)

\* the end of a detection that forgets to reset detection_name
EndOfDetection_KeepsName(st, q, ig) ==
    IF st.detection_str # <<>>
    THEN LET d == CreateRecord(q, st.detection_str, st.detection_name)
         IN  IF d.type = "exit"
             THEN [st EXCEPT !.result = Exited]
             ELSE Locals(Append(st.detections, d), <<>>, st.detection_name, FALSE, NoResult)
    ELSE IF st.detection_name # <<>> /\ ~ig
         THEN [st EXCEPT !.result =
                  Raised(HelperRaise("LoadDetectionError"),
                         NameOnlyMessage(st.comment_exists))]
         ELSE Locals(st.detections, <<>>, <<>>, FALSE, NoResult)

\* an empty line: the end of a detection
EndOfDetection(st, q, ig) ==
    IF st.detection_str # <<>>
    THEN LET d == CreateRecord(q, st.detection_str, st.detection_name)
         IN  IF d.type = "exit"
             THEN [st EXCEPT !.result = Exited]
             ELSE Locals(Append(st.detections, d), <<>>, <<>>, FALSE, NoResult)
    ELSE IF st.detection_name # <<>> /\ ~ig
         THEN [st EXCEPT !.result =
                  Raised(HelperRaise("LoadDetectionError"),
                         NameOnlyMessage(st.comment_exists))]
         ELSE Locals(st.detections, <<>>, <<>>, FALSE, NoResult)

\* a loop body in which a comment line ends the detection like an empty line
LoopBody_CommentEndsBlock(st, raw, q, ig) ==
    LET l == StripLine(raw)
    IN  IF startswith(l, "#")
        THEN [EndOfDetection(st, q, ig) EXCEPT !.comment_exists = TRUE]
        ELSE IF startswith(l, ";")
        THEN [st EXCEPT !.detection_name = StripName(l)]
        ELSE IF l = <<>>
        THEN EndOfDetection(st, q, ig)
        ELSE [st EXCEPT !.detection_str = st.detection_str \o <<" ">> \o l \o <<" ">>]

\* one pass through the body of `while line:` for the raw line `raw`
LoopBody(st, raw, q, ig) ==
    LET l == StripLine(raw)
    IN  IF startswith(l, "#")
        THEN [st EXCEPT !.comment_exists = TRUE]
        ELSE IF startswith(l, ";")
        THEN [st EXCEPT !.detection_name = StripName(l)]
        ELSE IF l = <<>>
        THEN EndOfDetection(st, q, ig)
        ELSE [st EXCEPT !.detection_str = st.detection_str \o <<" ">> \o l \o <<" ">>]

\* the code after the loop without the handling of a last detection that no
\* empty line follows
AfterLoop_DropsLast(st, q, ig) ==
    IF st.detections = <<>> /\ ~ig
    THEN Raised(HelperRaise("LoadDetectionError"),
                IF st.detection_name # <<>>
                THEN "Missing detection"
                ELSE "No detections or queries found")
    ELSE Returned(st.detections)

\* the code after the loop: the last detection, then the emptiness check
AfterLoop(st, q, ig) ==
    LET last ==
            IF st.detection_str # <<>>
            THEN LET d == CreateRecord(q, st.detection_str, st.detection_name)
                 IN  IF d.type = "exit"
                     THEN [st EXCEPT !.result = Exited]
                     ELSE [st EXCEPT !.detections = Append(st.detections, d)]
            ELSE IF st.detection_name # <<>> /\ ~ig
                 THEN [st EXCEPT !.result =
                          Raised(HelperRaise("LoadDetectionError"),
                                 NameOnlyMessage(st.comment_exists))]
                 ELSE st
    IN  IF last.result.kind # "none"
        THEN last.result
        ELSE IF last.detections = <<>> /\ ~ig
             THEN Raised(HelperRaise("LoadDetectionError"),
                         IF last.detection_name # <<>>
                         THEN "Missing detection"
                         ELSE "No detections or queries found")
             ELSE Returned(last.detections)

\* load_detections on a whole file given as its raw lines
RECURSIVE ScanFrom(_, _, _, _)
ScanFrom(st, f, q, ig) ==
    IF st.result.kind # "none" THEN st.result
    ELSE IF f = <<>> THEN AfterLoop(st, q, ig)
    ELSE ScanFrom(LoopBody(st, Head(f), q, ig), Tail(f), q, ig)

load_detections(f, q, ig) == ScanFrom(InitialLocals, f, q, ig)

(***************************************************************************)
(* The scanner as a state machine: the file is supplied line by line, as   *)
(* readline() returns it                                                   *)
(***************************************************************************)
\* line bodies (without the line terminator) a file is made of
Bodies ==
    { <<>>,                        \* empty line
      <<" ">>,                     \* whitespace only
      <<" ", "#", "a">>,           \* comment, indented
      <<";", " ", "n", ";">>,      \* name line
      <<";">>,                     \* name line without a name
      <<"a">>,                     \* content
      <<" ", "b", " ">> }          \* content with surrounding whitespace

\* what readline() can return next: a terminated line, an unterminated
\* non-empty last line, or <<>> at end of file
Readline(f) ==
    IF f # <<>> /\ f[Len(f)][Len(f[Len(f)])] # "\n"
    THEN { <<>> }
    ELSE IF Len(f) >= MaxLines
    THEN { <<>> }
    ELSE { b \o <<"\n">> : b \in Bodies } \cup (Bodies \ { <<>> }) \cup { <<>> }

CurrentLocals == Locals(detections, detection_str, detection_name, comment_exists, NoResult)

\* the next readline() result is taken and recorded
Advance(r) ==
    /\ line' = r
    /\ file' = IF r = <<>> THEN file ELSE Append(file, r)

SetLocals(st) ==
    /\ detections' = st.detections
    /\ detection_str' = st.detection_str
    /\ detection_name' = st.detection_name
    /\ comment_exists' = st.comment_exists

\* load_detections(None, ...)
LoadDetectionsMissingFile ==
    /\ ld_pc = "idle"
    /\ \E q \in BOOLEAN, ig \in BOOLEAN :
          /\ query' = q
          /\ ignore_errors' = ig
    /\ ld_result' = Raised(HelperRaise("LoadDetectionError"), "Missing PQL file")
    /\ ld_pc' = "done"
    /\ UNCHANGED <<file, line, detections, detection_str, detection_name, comment_exists>>
    /\ UNCHANGED <<apivars, restvars>>

\* the call up to the first readline()
LoadDetectionsCall ==
    /\ ld_pc = "idle"
    /\ \E q \in BOOLEAN, ig \in BOOLEAN :
          /\ query' = q
          /\ ignore_errors' = ig
    /\ SetLocals(InitialLocals)
    /\ \E r \in Readline(file) : Advance(r)
    /\ ld_pc' = "loop"
    /\ UNCHANGED ld_result
    /\ UNCHANGED <<apivars, restvars>>

\* a '#' line
LoopComment ==
    /\ ld_pc = "loop" /\ line # <<>>
    /\ startswith(StripLine(line), "#")
    /\ SetLocals(LoopBody(CurrentLocals, line, query, ignore_errors))
    /\ \E r \in Readline(file) : Advance(r)
    /\ UNCHANGED <<query, ignore_errors, ld_pc, ld_result>>
    /\ UNCHANGED <<apivars, restvars>>

\* a ';' line
LoopName ==
    /\ ld_pc = "loop" /\ line # <<>>
    /\ ~startswith(StripLine(line), "#")
    /\ startswith(StripLine(line), ";")
    /\ SetLocals(LoopBody(CurrentLocals, line, query, ignore_errors))
    /\ \E r \in Readline(file) : Advance(r)
    /\ UNCHANGED <<query, ignore_errors, ld_pc, ld_result>>
    /\ UNCHANGED <<apivars, restvars>>

\* an empty line
LoopEmpty ==
    /\ ld_pc = "loop" /\ line # <<>>
    /\ StripLine(line) = <<>>
    /\ LET st == LoopBody(CurrentLocals, line, query, ignore_errors)
       IN  IF st.result.kind # "none"
           THEN /\ ld_result' = st.result
                /\ ld_pc' = "done"
                /\ UNCHANGED <<file, line, detections, detection_str,
                               detection_name, comment_exists>>
           ELSE /\ SetLocals(st)
                /\ \E r \in Readline(file) : Advance(r)
                /\ UNCHANGED <<ld_pc, ld_result>>
    /\ UNCHANGED <<query, ignore_errors>>
    /\ UNCHANGED <<apivars, restvars>>

\* a line of detection text
LoopContent ==
    /\ ld_pc = "loop" /\ line # <<>>
    /\ StripLine(line) # <<>>
    /\ ~startswith(StripLine(line), "#")
    /\ ~startswith(StripLine(line), ";")
    /\ SetLocals(LoopBody(CurrentLocals, line, query, ignore_errors))
    /\ \E r \in Readline(file) : Advance(r)
    /\ UNCHANGED <<query, ignore_errors, ld_pc, ld_result>>
    /\ UNCHANGED <<apivars, restvars>>

\* end of file: the code after the loop
LoopExit ==
    /\ ld_pc = "loop" /\ line = <<>>
    /\ ld_result' = AfterLoop(CurrentLocals, query, ignore_errors)
    /\ detections' = IF ld_result'.kind = "return" THEN ld_result'.value ELSE detections
    /\ ld_pc' = "done"
    /\ UNCHANGED <<file, line, query, ignore_errors, detection_str,
                   detection_name, comment_exists>>
    /\ UNCHANGED <<apivars, restvars>>

LoadInit ==
    /\ LdIdle
    /\ environ = [SUBLIME_API_KEY |-> Unset, SUBLIME_SAVE_DIR |-> Unset, BASE_URL |-> Unset]
    /\ config_file = NoConfigFile
    /\ ApiIdle
    /\ RestIdle

LoadNext ==
    \/ LoadDetectionsMissingFile
    \/ LoadDetectionsCall
    \/ LoopComment
    \/ LoopName
    \/ LoopEmpty
    \/ LoopContent
    \/ LoopExit

SpecLoad == LoadInit /\ [][LoadNext]_vars

(***************************************************************************)
(* What a .pql file means, stated on the whole file: blocks, content       *)
(* lines, names                                                            *)
(***************************************************************************)
Trim(raw) == strip(raw, Whitespace)
IsBlankLine(raw) == Trim(raw) = <<>>
IsCommentLine(raw) == startswith(Trim(raw), "#")
IsNameLine(raw) == startswith(Trim(raw), ";")
IsContentLine(raw) == ~IsBlankLine(raw) /\ ~IsCommentLine(raw) /\ ~IsNameLine(raw)

\* the blank-line-delimited blocks of f, in file order (a block has at least one line)
RECURSIVE SplitBlocks(_, _, _)
SplitBlocks(f, cur, acc) ==
    IF f = <<>> THEN (IF cur = <<>> THEN acc ELSE Append(acc, cur))
    ELSE IF IsBlankLine(Head(f))
         THEN SplitBlocks(Tail(f), <<>>, IF cur = <<>> THEN acc ELSE Append(acc, cur))
         ELSE SplitBlocks(Tail(f), Append(cur, Head(f)), acc)

Blocks(f) == SplitBlocks(f, <<>>, <<>>)

HasContent(block) == \E i \in DOMAIN block : IsContentLine(block[i])
HasName(block) == \E i \in DOMAIN block : IsNameLine(block[i])

ContentBlocks(f) == SelectSeq(Blocks(f), HasContent)

RECURSIVE JoinWith(_, _)
JoinWith(strings, sep) ==
    IF strings = <<>> THEN <<>>
    ELSE IF Len(strings) = 1 THEN strings[1]
    ELSE strings[1] \o sep \o JoinWith(Tail(strings), sep)

\* the trimmed content lines of a block joined by sep
BlockText(block, sep) ==
    LET content == SelectSeq(block, IsContentLine)
    IN  JoinWith([i \in DOMAIN content |-> Trim(content[i])], sep)

\* the name the last ';' line of a block gives, None without one
BlockName(block) ==
    LET names == SelectSeq(block, IsNameLine)
        n == IF names = <<>> THEN <<>> ELSE StripName(Trim(names[Len(names)]))
    IN  IF n = <<>> THEN None ELSE n

ExpectedTexts(f, sep) ==
    [i \in DOMAIN ContentBlocks(f) |-> BlockText(ContentBlocks(f)[i], sep)]

ExpectedNames(f) ==
    [i \in DOMAIN ContentBlocks(f) |-> BlockName(ContentBlocks(f)[i])]

Texts(list) == [i \in DOMAIN list |-> list[i].text]
Names(list) == [i \in DOMAIN list |-> list[i].name]

\* a call on a file (not on None) has finished
LoadDone == ld_pc = "done" /\ ld_result.message # "Missing PQL file"
LoadReturned == LoadDone /\ ld_result.kind = "return"

TwoSpaces == <<" ", " ">>

\* C4 (as amended): a returned list has one record per block with a content
\* line, in file order, and the text of each record is the trimmed content
\* lines of its block joined by two spaces.
C4_RecordPerContentBlock ==
    LoadReturned =>
        /\ Len(ld_result.value) = Len(ContentBlocks(file))
        /\ Texts(ld_result.value) = ExpectedTexts(file, TwoSpaces)
        /\ \A i \in DOMAIN ld_result.value :
              ld_result.value[i].type = (IF query THEN "query" ELSE "detection")

\* C4 as stated: the text of each record is the content lines of its block
\* concatenated.
C4_TextIsPlainConcatenation ==
    LoadReturned =>
        /\ Len(ld_result.value) = Len(ContentBlocks(file))
        /\ Texts(ld_result.value) = ExpectedTexts(file, <<>>)

\* two blocks were loaded, one of them with two content lines
C4_Witness ==
    /\ LoadReturned
    /\ Len(ld_result.value) = 2
    /\ \E i \in DOMAIN ContentBlocks(file) :
          Len(SelectSeq(ContentBlocks(file)[i], IsContentLine)) = 2
    /\ \E i \in DOMAIN file : Trim(file[i]) = <<>> /\ file[i] # <<"\n">>

RemoveComments(f) == SelectSeq(f, LAMBDA raw : ~IsCommentLine(raw))

\* C5: a file that loads without error gives the same list of records with
\* its comment lines removed.
C5_CommentsAreInert ==
    LoadReturned =>
        load_detections(RemoveComments(file), query, ignore_errors) = ld_result

\* a comment line stood between two content lines of a loaded block
C5_Witness ==
    /\ LoadReturned
    /\ \E i \in DOMAIN file :
          /\ IsCommentLine(file[i])
          /\ i > 1 /\ IsContentLine(file[i - 1])
          /\ i < Len(file) /\ IsContentLine(file[i + 1])
    /\ Len(ld_result.value) = 1

\* C6: the name of each returned record is the name given by the last ';'
\* line of the record's own block (the line stripped of whitespace, of ';'
\* at both ends and of whitespace again), and None when the block has none.
C6_NameFromOwnBlock ==
    LoadReturned => Names(ld_result.value) = ExpectedNames(file)

\* a named block was followed by a block without a name line
C6_Witness ==
    /\ LoadReturned
    /\ Len(ld_result.value) = 2
    /\ ld_result.value[1].name = <<"n">>
    /\ ld_result.value[2].name = None
    /\ ~HasName(ContentBlocks(file)[2])

\* the file with one blank line appended (an unterminated last line is
\* terminated first)
AppendBlank(f) ==
    LET n == Len(f)
        closed == IF n > 0 /\ f[n][Len(f[n])] # "\n"
                  THEN [f EXCEPT ![n] = f[n] \o <<"\n">>]
                  ELSE f
    IN  Append(closed, <<"\n">>)

\* the list of records, or the fact that the call failed
Outcome(res) == IF res.kind = "return" THEN res ELSE Raised("error", "")

\* C7: a file and the file with a blank line appended give the same list of
\* records, or fail both, in query mode and in detection mode.
C7_TrailingBlankLineIrrelevant ==
    LoadDone =>
        Outcome(load_detections(AppendBlank(file), query, ignore_errors))
            = Outcome(ld_result)

\* the last block of the file was not followed by a blank line and was loaded
C7_Witness ==
    /\ LoadReturned
    /\ file # <<>>
    /\ IsContentLine(file[Len(file)])
    /\ Len(ld_result.value) = 2

\* a block without content line whose (last) name line gives a name
NameOnlyBlock(block) == ~HasContent(block) /\ BlockName(block) # None

\* C8 as stated: on a file with a name-only block, ignore_errors=False raises
\* LoadDetectionError, and ignore_errors=True returns the records of all the
\* other blocks.
C8_NameOnlyBlock ==
    (LoadDone /\ \E i \in DOMAIN Blocks(file) : NameOnlyBlock(Blocks(file)[i])) =>
        IF ignore_errors
        THEN /\ ld_result.kind = "return"
             /\ Texts(ld_result.value) = ExpectedTexts(file, TwoSpaces)
        ELSE /\ ld_result.kind = "raise"
             /\ ld_result.exc = "LoadDetectionError"

\* C9 as stated: a file without any content line raises LoadDetectionError
\* when ignore_errors=False and gives the empty list when ignore_errors=True;
\* the empty list is never returned when ignore_errors=False.
C9_NothingLoaded ==
    /\ (LoadDone /\ ContentBlocks(file) = <<>>) =>
          IF ignore_errors
          THEN ld_result = Returned(<<>>)
          ELSE ld_result.kind = "raise" /\ ld_result.exc = "LoadDetectionError"
    /\ (LoadDone /\ ~ignore_errors) => ld_result # Returned(<<>>)

(***************************************************************************)
(* Saving the configuration: setup, save_config, request_permission        *)
(* (src/sublime/util.py, src/sublime/cli/subcommand.py)                    *)
(***************************************************************************)
\* most setup / save_config / request_permission calls in one run
MaxConfigCalls == 3

\* os.path.isdir: the directories that exist
Directories == {"/d1"}
isdir(path) == path \in Directories

NoOptionsMessage == "Error: no options provided. Try \"sublime setup -h\" for help."
InvalidSaveDirMessage == "Error: save directory is not a valid directory"
SavedMessage == "Configuration saved to '~/.config/sublime/setup.cfg'"

\* `key not in config or not config[key]`
Unspecified(value) == value \in {Unset, Null, ""}

\* len(config) for a dict over the three keys
ConfigLen(config) == Cardinality({k \in ConfigKeys : config[k] # Unset})

\* the [emailrep] key save_config carries over from the existing file
KeptEmailrep(cfg) ==
    IF cfg.exists /\ cfg.emailrep \notin {Unset, ""} THEN cfg.emailrep ELSE Unset

SaveResult(outcome, echo, cfg) == [outcome |-> outcome, echo |-> echo, file |-> cfg]

\* save_config(config): what it prints, how it ends and the file it leaves
save_config(config, cfg, env) ==
    IF ConfigLen(config) = 0
    THEN SaveResult("exit", {NoOptionsMessage}, cfg)
    ELSE LET saved == load_config(cfg, env)
             filled == [k \in ConfigKeys |->
                           IF Unspecified(config[k]) THEN saved[k] ELSE config[k]]
         IN  IF filled.save_dir # "" /\ ~isdir(filled.save_dir)
             THEN SaveResult("exit", {InvalidSaveDirMessage}, cfg)
             ELSE SaveResult("saved", {},
                             [exists |-> TRUE, sublime |-> filled,
                              emailrep |-> KeptEmailrep(cfg)])

\* what every config call leaves alone
CfgFrame ==
    /\ UNCHANGED <<environ, api_key_option, cli_pc, exit_code, api_key, request,
                   response, num_requests, req_result>>
    /\ UNCHANGED <<ldvars, echovars, anvars, mboxvars, ymlvars>>

\* the setup command: `sublime setup [-k KEY] [-s DIR]`
Setup ==
    /\ num_config_calls < MaxConfigCalls
    /\ \E k \in {Null, "", "optkey"}, s \in {Null, "/d1", "/gone"} :
          LET config == [api_key |-> k, save_dir |-> s, permission |-> Unset]
              r == save_config(config, config_file, environ)
          IN  /\ cfg_call' = [op |-> "setup", config |-> config]
              /\ cfg_outcome' = r.outcome
              /\ config_file' = r.file
              /\ cfg_echo' = IF r.outcome = "saved" THEN r.echo \cup {SavedMessage}
                                                    ELSE r.echo
    /\ prompted' = FALSE
    /\ num_config_calls' = num_config_calls + 1
    /\ UNCHANGED accepted
    /\ CfgFrame

\* save_config(config) called with a dict of the caller's making
SaveConfig ==
    /\ num_config_calls < MaxConfigCalls
    /\ \E config \in [api_key : {Unset, "", "newkey"},
                      save_dir : {Unset, "/d1"},
                      permission : {Unset, "", "True"}] :
          LET r == save_config(config, config_file, environ)
          IN  /\ cfg_call' = [op |-> "save_config", config |-> config]
              /\ cfg_outcome' = r.outcome
              /\ config_file' = r.file
              /\ cfg_echo' = r.echo
    /\ prompted' = FALSE
    /\ num_config_calls' = num_config_calls + 1
    /\ UNCHANGED accepted
    /\ CfgFrame

\* request_permission(): the user answers the confirmation when it is shown
RequestPermission ==
    /\ num_config_calls < MaxConfigCalls
    /\ LET config == load_config(config_file, environ)
       IN  IF config.permission # "True"
           THEN /\ prompted' = TRUE
                /\ \E answer \in BOOLEAN :
                      IF answer
                      THEN LET granted == [config EXCEPT !.permission = "True"]
                               r == save_config(granted, config_file, environ)
                           IN  /\ cfg_call' = [op |-> "request_permission",
                                               config |-> granted]
                               /\ cfg_outcome' = r.outcome
                               /\ config_file' = r.file
                               /\ cfg_echo' = r.echo
                               /\ accepted' = TRUE
                      ELSE /\ cfg_call' = [op |-> "request_permission",
                                           config |-> NoConfigArgs]
                           /\ cfg_outcome' = "abort"
                           /\ cfg_echo' = {}
                           /\ UNCHANGED <<config_file, accepted>>
           ELSE /\ prompted' = FALSE
                /\ cfg_call' = [op |-> "request_permission", config |-> NoConfigArgs]
                /\ cfg_outcome' = "return"
                /\ cfg_echo' = {}
                /\ UNCHANGED <<config_file, accepted>>
    /\ num_config_calls' = num_config_calls + 1
    /\ CfgFrame

CfgEnvirons ==
    [SUBLIME_API_KEY : {Unset, "envkey"},
     SUBLIME_SAVE_DIR : {Unset, "/d1", "/gone"},
     BASE_URL : {Unset}]

CfgConfigFiles ==
    {NoConfigFile} \cup
    [exists : {TRUE},
     sublime : [api_key : {"", "filekey"}, save_dir : {"", "/d1"},
                permission : {"", "True"}],
     emailrep : {Unset, "", "repkey"}]

ConfigInit ==
    /\ environ \in CfgEnvirons
    /\ config_file \in CfgConfigFiles
    /\ ApiIdle
    /\ LdIdle
    /\ RestIdle

ConfigNext ==
    \/ Setup
    \/ SaveConfig
    \/ RequestPermission

SpecConfig == ConfigInit /\ [][ConfigNext]_vars

(***************************************************************************)
(* Properties of setup, save_config and request_permission                 *)
(***************************************************************************)
\* a step that is one setup / save_config / request_permission call
ConfigCallStep == num_config_calls' # num_config_calls

\* the [sublime] options a configuration file stores
Stored(cfg) == IF cfg.exists THEN cfg.sublime ELSE DEFAULT_CONFIG

\* C11: a save_config call that writes the file leaves every setting the
\* caller did not specify (key missing, None or empty) at the value the file
\* stored before the call, whatever the environment variables are, and keeps
\* a non-empty emailrep key.
C11_UnspecifiedSettingsKept ==
    [][(ConfigCallStep /\ cfg_outcome' = "saved") =>
          /\ \A k \in ConfigKeys :
                Unspecified(cfg_call'.config[k]) =>
                    Stored(config_file')[k] = Stored(config_file)[k]
          /\ (config_file.exists /\ config_file.emailrep \notin {Unset, ""}) =>
                config_file'.emailrep = config_file.emailrep]_vars

\* C12: once the user has answered yes to the confirmation, no later
\* request_permission call prompts, whatever setup / save_config calls that
\* do not set permission come in between; a declined prompt aborts and
\* leaves the configuration file as it was.
C12_AcceptOnce ==
    [][(ConfigCallStep /\ cfg_call'.op = "request_permission") =>
          /\ accepted => ~prompted'
          /\ (prompted' /\ ~accepted') =>
                (cfg_outcome' = "abort" /\ config_file' = config_file)]_vars

\* C13: setup with neither --api-key nor --save-dir prints 'no options
\* provided', exits with a failure status, does not write the file and does
\* not print 'Configuration saved'.
C13_SetupWithoutOptions ==
    (/\ cfg_call.op = "setup"
     /\ cfg_call.config.api_key = Null
     /\ cfg_call.config.save_dir = Null)
    => (/\ cfg_outcome = "exit"
        /\ NoOptionsMessage \in cfg_echo
        /\ SavedMessage \notin cfg_echo)

(***************************************************************************)
(* Printing a command's result: echo_result                                *)
(* (src/sublime/cli/decorator.py, src/sublime/cli/formatter.py)            *)
(***************************************************************************)
\* FORMATTERS["txt"]: the template formatter registered under each key
FORMATTERS_txt ==
    ("enrich" :> "mdm_formatter") @@
    ("create" :> "mdm_formatter") @@
    ("analyze" :> "analyze_formatter") @@
    ("enrich_details" :> "enrich_details_formatter") @@
    ("query" :> "query_formatter") @@
    ("create_detections" :> "create_detections_formatter") @@
    ("get_detections" :> "get_detections_formatter") @@
    ("get_messages" :> "get_messages_formatter") @@
    ("update_detections" :> "update_detections_formatter") @@
    ("get_me" :> "get_me_formatter") @@
    ("get_org" :> "get_org_formatter") @@
    ("update_messages" :> "update_messages_formatter") @@
    ("listen" :> "listen_formatter") @@
    ("send_mock" :> "send_mock_formatter") @@
    ("update_users" :> "update_users_formatter") @@
    ("get_users" :> "get_users_formatter") @@
    ("backtest_detections" :> "backtest_detections_formatter") @@
    ("delete_messages" :> "delete_messages_formatter") @@
    ("subscribe_detections" :> "subscribe_detections_formatter") @@
    ("share_detections" :> "share_detections_formatter")

\* FORMATTERS["json"]
FORMATTERS_json == "json_formatter"

Command(group, name) == [group |-> group, name |-> name]

\* the commands of the main group that are wrapped in echo_result
MainCommands == {Command("main", n) : n \in {"enrich", "generate", "analyze", "query"}}

\* the commands of the subcommand groups, all wrapped in echo_result
GroupCommands ==
    {Command("get", n) : n \in {"detections", "messages", "me", "org", "users"}} \cup
    {Command("create", "detections")} \cup
    {Command("update", n) : n \in {"detections", "messages", "users"}} \cup
    {Command("delete", "messages")} \cup
    {Command("share", "detections")} \cup
    {Command("subscribe", "detections")} \cup
    {Command("send", "mock")} \cup
    {Command("backtest", "detections")}

ResultCommands == MainCommands \cup GroupCommands

\* str.rfind(c) + 1: the position of the last c in s, 0 when there is none
RFind(s, c) ==
    IF \E i \in DOMAIN s : s[i] = c
    THEN CHOOSE i \in DOMAIN s : s[i] = c /\ \A j \in DOMAIN s : s[j] = c => j <= i
    ELSE 0

\* os.path.splitext: <<root, ext>>
splitext(path) ==
    LET sepIndex == RFind(path, "/")
        dotIndex == RFind(path, ".")
    IN  IF dotIndex > sepIndex
           /\ \E i \in (sepIndex + 1) .. (dotIndex - 1) : path[i] # "."
        THEN <<SubSeq(path, 1, dotIndex - 1), SubSeq(path, dotIndex, Len(path))>>
        ELSE <<path, <<>>>>

\* os.path.basename
basename(path) == SubSeq(path, RFind(path, "/") + 1, Len(path))

\* os.path.join(a, b)
join(a, b) ==
    IF startswith(b, "/") THEN b
    ELSE IF a = <<>> \/ a[Len(a)] = "/" THEN a \o b
    ELSE a \o <<"/">> \o b

\* the characters of the directory names the configuration can hold
PathOf(dir) ==
    CASE dir = "" -> <<>>
      [] dir = "/d1" -> <<"/", "d", "1">>
      [] dir = "/gone" -> <<"/", "g", "o", "n", "e">>

\* sys.stdout, as click.open_file("-") gives it
Stdout == <<"-">>

\* one click.echo(formatter(data), file=file)
Write(f, formatter, data) == [file |-> f, formatter |-> formatter, data |-> data]

EchoReturned(formatter, writes) ==
    [kind |-> "return", exc |-> "", formatter |-> formatter, writes |-> writes]
EchoRaised(exc) == [kind |-> "raise", exc |-> exc, formatter |-> "", writes |-> <<>>]

\* the key of FORMATTERS["txt"] echo_result looks a command up under
FormatterKey(cmd) ==
    IF cmd.group # "main" THEN cmd.group \o "_" \o cmd.name ELSE cmd.name

\* the file enrich and generate save the MDM to when no -o is given
DefaultOutputFile(prm, save_dir) ==
    LET input_file_relative_no_ext == splitext(prm.input_file)[1]
        input_file_name_no_ext == basename(input_file_relative_no_ext)
        output_file_name ==
            input_file_name_no_ext \o
                (IF prm.output_format = "json" THEN <<".", "m", "d", "m">>
                 ELSE IF prm.output_format = "txt" THEN <<".", "t", "x", "t">>
                 ELSE <<>>)
    IN  IF save_dir # <<>> THEN join(save_dir, output_file_name) ELSE output_file_name

\* the wrapper of echo_result, run on the result the command returned
echo_result(cmd, prm, config) ==
    LET save_dir == PathOf(config.save_dir)
        key == FormatterKey(cmd)
        found == prm.output_format = "json" \/ key \in DOMAIN FORMATTERS_txt
        formatter == IF prm.output_format = "json" THEN FORMATTERS_json
                                                   ELSE FORMATTERS_txt[key]
        saves_mdm == cmd.name \in {"enrich", "generate"}
        output_file == IF saves_mdm /\ prm.output_file = None
                       THEN DefaultOutputFile(prm, save_dir)
                       ELSE prm.output_file
        details == IF cmd.name = "enrich"
                   THEN <<Write(Stdout, FORMATTERS_txt["enrich_details"], "result")>>
                   ELSE <<>>
        data == IF cmd.name = "enrich" THEN "message_data_model"
                ELSE IF cmd.name = "generate" THEN "unenriched_message_data_model"
                ELSE "result"
        main == <<Write(IF output_file = None THEN Stdout ELSE output_file,
                        formatter, data)>>
        raw_mdm == IF cmd.name = "messages" /\ prm.message_data_model_id /\ prm.verbose
                   THEN LET output_file_name == <<"i", "d", ".", "m", "d", "m">>
                        IN  <<Write(IF save_dir # <<>>
                                    THEN join(save_dir, output_file_name)
                                    ELSE output_file_name,
                                    FORMATTERS_json, "message_data_model")>>
                   ELSE <<>>
    IN  IF ~found THEN EchoRaised("KeyError")
        ELSE EchoReturned(formatter, details \o main \o raw_mdm)

\* the lookup the listen command does itself (subcommand.py)
listen_formatter_lookup(output_format) ==
    IF output_format = "json" THEN EchoReturned(FORMATTERS_json, <<>>)
    ELSE IF "listen" \in DOMAIN FORMATTERS_txt
         THEN EchoReturned(FORMATTERS_txt["listen"], <<>>)
         ELSE EchoRaised("KeyError")

\* the names click.File gives the input file
InputFiles ==
    { <<"a", ".", "e", "m", "l">>,
      <<"d", "/", "a", ".", "e", "m", "l">>,
      <<"d", ".", "x", "/", "a">>,
      <<".", "h">>,
      <<"a", ".", "b", ".", "c">>,
      <<"/", "t", "/", "m">> }

OutputFiles == {None, <<"o", ".", "j">>}

\* what every echo_result run leaves alone
EchoFrame ==
    /\ UNCHANGED <<environ, config_file, api_key_option, cli_pc, exit_code, api_key,
                   request, response, num_requests, req_result>>
    /\ UNCHANGED <<ldvars, cfgvars, anvars, mboxvars, ymlvars>>

\* a command wrapped in echo_result has returned its result
EchoResult ==
    /\ echo_pc = "idle"
    /\ \E cmd \in ResultCommands, f \in {"json", "txt"}, o \in OutputFiles,
          i \in InputFiles, v \in BOOLEAN, m \in BOOLEAN :
          LET prm == [output_format |-> f, output_file |-> o,
                      input_file |-> IF cmd \in MainCommands THEN i ELSE None,
                      verbose |-> v,
                      message_data_model_id |-> m /\ cmd.name = "messages"]
          IN  /\ command' = cmd
              /\ params' = prm
              /\ echo_out' = echo_result(cmd, prm, load_config(config_file, environ))
    /\ echo_pc' = "done"
    /\ EchoFrame

\* the listen command up to its formatter lookup
Listen ==
    /\ echo_pc = "idle"
    /\ \E f \in {"json", "txt"}, v \in BOOLEAN :
          /\ command' = Command("main", "listen")
          /\ params' = [NoParams EXCEPT !.output_format = f, !.verbose = v]
          /\ echo_out' = listen_formatter_lookup(f)
    /\ echo_pc' = "done"
    /\ EchoFrame

EchoEnvirons ==
    [SUBLIME_API_KEY : {Unset}, SUBLIME_SAVE_DIR : {Unset, "", "/d1"}, BASE_URL : {Unset}]

EchoConfigFiles ==
    {NoConfigFile} \cup
    {ConfigFile([api_key |-> "filekey", save_dir |-> d, permission |-> ""]) :
        d \in {"", "/d1"}}

EchoInit ==
    /\ environ \in EchoEnvirons
    /\ config_file \in EchoConfigFiles
    /\ ApiIdle
    /\ LdIdle
    /\ RestIdle

EchoNext ==
    \/ EchoResult
    \/ Listen

SpecEcho == EchoInit /\ [][EchoNext]_vars

(***************************************************************************)
(* Properties of echo_result                                               *)
(***************************************************************************)
EchoDone == echo_pc = "done"

\* the last component of a path
RECURSIVE LastComponent(_)
LastComponent(path) ==
    IF \E i \in DOMAIN path : path[i] = "/"
    THEN LastComponent(Tail(path))
    ELSE path

\* a file name without its extension: what precedes its last dot, when
\* something other than dots precedes it
WithoutExtension(name) ==
    LET dots == {i \in DOMAIN name :
                    name[i] = "." /\ \E j \in 1 .. (i - 1) : name[j] # "."}
    IN  IF dots = {} THEN name
        ELSE SubSeq(name, 1, (CHOOSE i \in dots : \A j \in dots : j <= i) - 1)

Extension(output_format) ==
    IF output_format = "json" THEN <<".", "m", "d", "m">> ELSE <<".", "t", "x", "t">>

\* the save directory in force, as load_config reports it
ConfiguredSaveDir == PathOf(load_config(config_file, environ).save_dir)

ExpectedMdmFile ==
    LET name == WithoutExtension(LastComponent(params.input_file))
                    \o Extension(params.output_format)
    IN  IF ConfiguredSaveDir # <<>>
        THEN IF ConfiguredSaveDir[Len(ConfiguredSaveDir)] = "/"
             THEN ConfiguredSaveDir \o name
             ELSE ConfiguredSaveDir \o <<"/">> \o name
        ELSE name

FileWrites == SelectSeq(echo_out.writes, LAMBDA w : w.file # Stdout)

MdmOf(cmd) ==
    IF cmd.name = "enrich" THEN "message_data_model" ELSE "unenriched_message_data_model"

\* C14: enrich and generate without -o write the MDM, and nothing else, to
\* one file: <input base name without extension>.mdm for json, .txt for
\* txt, in the configured save directory when there is one and in the
\* current directory otherwise.
C14_MdmSavedByDefault ==
    (/\ EchoDone
     /\ command \in {Command("main", "enrich"), Command("main", "generate")}
     /\ params.output_file = None)
    => (/\ echo_out.kind = "return"
        /\ Len(FileWrites) = 1
        /\ FileWrites[1].file = ExpectedMdmFile
        /\ FileWrites[1].data = MdmOf(command))

\* the name a command's template formatter is registered under
RegisteredName(cmd) ==
    IF cmd.group = "main" THEN cmd.name ELSE cmd.group \o "_" \o cmd.name

\* C18: for every result-printing command and both output formats the
\* formatter lookup succeeds: the raw JSON formatter for json, and for txt
\* the template formatter registered under the command's name, or under
\* <group>_<command> for a command of a group.
C18_FormatterFound ==
    EchoDone =>
        /\ echo_out.kind = "return"
        /\ params.output_format = "json" => echo_out.formatter = FORMATTERS_json
        /\ params.output_format = "txt" =>
              /\ RegisteredName(command) \in DOMAIN FORMATTERS_txt
              /\ echo_out.formatter = FORMATTERS_txt[RegisteredName(command)]

(***************************************************************************)
(* The analyze command (src/sublime/cli/subcommand.py)                     *)
(***************************************************************************)
\* the names subcommand.py can call: helper.py's functions, through
\* `from sublime.cli.helper import *`
SubcommandGlobals ==
    {"load_eml", "load_message_data_model", "load_detections_path",
     "load_detections", "create_simple_detection", "create_query",
     "get_datetime_formats"}

\* str.endswith
endswith(str, suffix) ==
    /\ Len(str) >= Len(suffix)
    /\ SubSeq(str, Len(str) - Len(suffix) + 1, Len(str)) = suffix

\* load_detections_path: every .pql file under the path, errors ignored
RECURSIVE load_detections_path(_, _, _)
load_detections_path(files, q, ig) ==
    IF files = <<>> THEN Returned(<<>>)
    ELSE LET first == load_detections(Head(files), q, ig)
             rest == load_detections_path(Tail(files), q, ig)
         IN  IF first.kind = "return"
             THEN IF rest.kind = "return"
                  THEN Returned(first.value \o rest.value)
                  ELSE rest
             ELSE IF "LoadDetectionError" \notin HelperGlobals
                  THEN Raised("NameError", "name 'LoadDetectionError' is not defined")
             ELSE IF first.exc = "LoadDetectionError" /\ ig THEN rest
             ELSE first

\* the request analyze has decided to send
AnalyzeRequest(method, dets, verbose) ==
    [kind |-> "request", method |-> method,
     body |-> [endpoint |-> EndpointOf(method, ""), multi |-> TRUE,
               detections |-> dets,
               response_type |-> IF verbose THEN "full" ELSE ""],
     result |-> NoResult]
AnalyzeRaise(exc) ==
    [kind |-> "raise", method |-> "", body |-> NoSent, result |-> Raised(exc, "")]

\* the body of analyze with the raw detection preferred over the -D path
analyze_PrefersRaw(args) ==
    IF args.detections_path = "none" /\ args.detection_str = None
    THEN AnalyzeRaise("MissingDetectionInput")
    ELSE IF args.detection_str # None
    THEN AnalyzeRaise(IF "create_detection" \in SubcommandGlobals
                      THEN "NotModelled" ELSE "NameError")
    ELSE LET loaded == IF args.detections_path = "file"
                       THEN load_detections(args.pql_files[1], FALSE, FALSE)
                       ELSE load_detections_path(args.pql_files, FALSE, TRUE)
         IN  IF loaded.kind # "return" THEN AnalyzeRaise(loaded.exc)
             ELSE IF endswith(args.input_file, <<".", "m", "d", "m">>)
             THEN IF ~args.input_ok THEN AnalyzeRaise("LoadMessageDataModelError")
                  ELSE AnalyzeRequest("analyze_mdm_multi", loaded.value, args.verbose)
             ELSE IF ~args.input_ok THEN AnalyzeRaise("LoadEMLError")
                  ELSE AnalyzeRequest("analyze_eml_multi", loaded.value, args.verbose)

\* the body of analyze up to its client call: the request it sends, or the
\* exception that ends it
analyze(args) ==
    IF args.detections_path = "none" /\ args.detection_str = None
    THEN AnalyzeRaise("MissingDetectionInput")
    ELSE IF args.detections_path = "none"
    THEN AnalyzeRaise(IF "create_detection" \in SubcommandGlobals
                      THEN "NotModelled" ELSE "NameError")
    ELSE LET loaded == IF args.detections_path = "file"
                       THEN load_detections(args.pql_files[1], FALSE, FALSE)
                       ELSE load_detections_path(args.pql_files, FALSE, TRUE)
         IN  IF loaded.kind # "return" THEN AnalyzeRaise(loaded.exc)
             ELSE IF endswith(args.input_file, <<".", "m", "d", "m">>)
             THEN IF ~args.input_ok THEN AnalyzeRaise("LoadMessageDataModelError")
                  ELSE AnalyzeRequest("analyze_mdm_multi", loaded.value, args.verbose)
             ELSE IF ~args.input_ok THEN AnalyzeRaise("LoadEMLError")
                  ELSE AnalyzeRequest("analyze_eml_multi", loaded.value, args.verbose)

\* what the analyze steps leave alone
AnalyzeFrame ==
    /\ UNCHANGED <<environ, config_file, api_key_option, cli_pc, exit_code, api_key>>
    /\ UNCHANGED <<ldvars, cfgvars, echovars, mboxvars, ymlvars, an_args>>

\* analyze runs up to its client call, which sends the request, or raises
AnalyzeCall ==
    /\ cli_pc = "command"
    /\ an_pc = "idle"
    /\ an_args # NoAnalyzeArgs
    /\ LET a == analyze(an_args)
       IN  IF a.kind = "request"
           THEN LET endpoint == EndpointOf(a.method, "")
                IN  /\ request' = [endpoint |-> endpoint,
                                   method |-> RequestTypeOf(a.method),
                                   url |-> RequestUrl(environ, endpoint),
                                   headers |-> RequestHeaders(api_key)]
                    /\ an_sent' = a.body
                    /\ num_requests' = num_requests + 1
                    /\ an_pc' = "waiting"
                    /\ UNCHANGED an_outcome
           ELSE /\ an_outcome' = a.result
                /\ an_pc' = "done"
                /\ UNCHANGED <<request, an_sent, num_requests>>
    /\ UNCHANGED <<response, req_result>>
    /\ AnalyzeFrame

\* the response has arrived: analyze sorts the results and returns, or the
\* client's exception ends it
AnalyzeReturn ==
    /\ an_pc = "waiting"
    /\ request = NoRequest
    /\ an_outcome' = IF req_result.kind = "return" THEN Returned(<<>>)
                     ELSE Raised(req_result.exc, "")
    /\ an_pc' = "done"
    /\ UNCHANGED <<request, response, num_requests, req_result, an_sent>>
    /\ AnalyzeFrame

\* a raw line of a .pql file
PqlLine(chars) == chars \o <<"\n">>

\* .pql files: empty, one detection, a name without detection, a named
\* detection followed by a second one
PqlFiles ==
    { <<>>,
      <<PqlLine(<<"a">>)>>,
      <<PqlLine(<<";", "n">>), PqlLine(<<>>)>>,
      <<PqlLine(<<";", "n">>), PqlLine(<<"a">>), PqlLine(<<>>), <<"b">>>> }

\* what -D can name: one file, or a directory with these .pql files in it
DetectionPaths ==
    {[kind |-> "file", files |-> <<f>>] : f \in PqlFiles} \cup
    {[kind |-> "dir", files |-> fs] :
        fs \in {<<>>} \cup {<<f, g>> : f \in PqlFiles, g \in PqlFiles}} \cup
    {[kind |-> "none", files |-> <<>>]}

AnalyzeInputs ==
    { <<"m", ".", "m", "d", "m">>,
      <<"m", ".", "e", "m", "l">>,
      <<"m", "d", "m">>,
      <<"m", ".", "m", "d", "m", ".", "e", "m", "l">> }

AnalyzeArgs ==
    {[input_file |-> i, input_ok |-> ok, detections_path |-> d.kind,
      pql_files |-> d.files, detection_str |-> raw, verbose |-> v] :
        i \in AnalyzeInputs, ok \in BOOLEAN, d \in DetectionPaths,
        raw \in {None, <<"x">>}, v \in BOOLEAN}

AnalyzeInit ==
    /\ environ \in [SUBLIME_API_KEY : {Unset, "envkey"}, SUBLIME_SAVE_DIR : {Unset},
                    BASE_URL : {Unset}]
    /\ config_file = NoConfigFile
    /\ ApiIdle
    /\ LdIdle
    /\ CfgIdle
    /\ EchoIdle
    /\ MboxIdle
    /\ YmlIdle
    /\ an_args \in AnalyzeArgs
    /\ an_pc = "idle"
    /\ an_sent = NoSent
    /\ an_outcome = NoResult

AnalyzeNext ==
    \/ PassApiClient
    \/ AnalyzeCall
    \/ ReceiveResponse
    \/ AnalyzeReturn

SpecAnalyze == AnalyzeInit /\ [][AnalyzeNext]_vars

(***************************************************************************)
(* Properties of the analyze command                                       *)
(***************************************************************************)
\* the invocation is over: stopped for want of an API key, or the body ended
AnalyzeOver == cli_pc = "exited" \/ an_pc = "done"

WithDetectionsPath == an_args.detections_path # "none"

\* what loading the -D path gives: a file is loaded strictly, the files of
\* a directory with errors ignored
LoadedFromPath ==
    IF an_args.detections_path = "file"
    THEN load_detections(an_args.pql_files[1], FALSE, FALSE)
    ELSE load_detections_path(an_args.pql_files, FALSE, TRUE)

InputIsMdm ==
    /\ Len(an_args.input_file) >= 4
    /\ SubSeq(an_args.input_file, Len(an_args.input_file) - 3,
              Len(an_args.input_file)) = <<".", "m", "d", "m">>

MultiEndpoint == IF InputIsMdm THEN "model/analyze/multi" ELSE "message/analyze/multi"

\* the request the claim describes has been sent, and no other
OneMultiRequest ==
    /\ num_requests = 1
    /\ an_sent.endpoint = MultiEndpoint
    /\ an_sent.multi
    /\ an_sent.detections = LoadedFromPath.value

\* C15, as stated: every analyze run with -D sends exactly one request, to
\* model/analyze/multi for an input named *.mdm and to message/analyze/multi
\* otherwise, carrying the detections loaded from -D, whether or not -d is
\* given too.
C15_OneRequestPerInvocation ==
    (WithDetectionsPath /\ an_pc = "done") => OneMultiRequest

\* the API key is there and the detections and the input file load
AnalyzeCanSend ==
    /\ cli_pc = "command"
    /\ LoadedFromPath.kind = "return"
    /\ an_args.input_ok

\* C15, as amended: an analyze invocation with -D that has an API key and
\* whose detections and input file load without error sends exactly one
\* request, to the multi endpoint its input's name selects, carrying the
\* detections loaded from -D whether or not -d is given; an invocation that
\* stops before that sends none.
C15_OneRequestWhenLoaded ==
    /\ (WithDetectionsPath /\ an_pc \in {"waiting", "done"} /\ AnalyzeCanSend)
          => OneMultiRequest
    /\ (WithDetectionsPath /\ AnalyzeOver /\ ~AnalyzeCanSend) => num_requests = 0
    /\ an_pc = "idle" => num_requests = 0

C15_Witness ==
    /\ an_pc = "done"
    /\ an_args.detections_path = "dir"
    /\ an_args.detection_str # None
    /\ InputIsMdm
    /\ Len(an_sent.detections) >= 2
    /\ OneMultiRequest

(***************************************************************************)
(* load_mbox (src/sublime/util.py)                                         *)
(***************************************************************************)
\* most messages in a mailbox
MaxMessages == 3

EmptySubject == "[Empty Subject]"

\* str(instance), as the f-string formats it
Str(n) ==
    CASE n = 0 -> "0" [] n = 1 -> "1" [] n = 2 -> "2" [] n = 3 -> "3"
      [] n = 4 -> "4" [] n = 5 -> "5" [] n = 6 -> "6" [] n = 7 -> "7"
      [] n = 8 -> "8" [] n = 9 -> "9"

\* the keys of the dict
Keys(d) == {e.key : e \in d}

\* d[key] = msg
SetItem(d, key, msg) == {e \in d : e.key # key} \cup {[key |-> key, msg |-> msg]}

\* message['subject'] or "[Empty Subject]"
SubjectOf(message) ==
    IF message.subject \in {Null, ""} THEN EmptySubject ELSE message.subject

\* the key search that stops at the first numbered key
mbox_key_OneStep(subject, instance, d) ==
    IF subject \in Keys(d) THEN subject \o " (1)" ELSE subject

\* the `while key in raw_messages` loop: the key for a message
RECURSIVE mbox_key(_, _, _)
mbox_key(subject, instance, d) ==
    LET key == IF instance = 0 THEN subject
               ELSE subject \o " (" \o Str(instance) \o ")"
    IN  IF key \in Keys(d) THEN mbox_key(subject, instance + 1, d) ELSE key

\* what the load_mbox steps leave alone
MboxFrame == UNCHANGED <<ldvars, apivars, cfgvars, echovars, anvars, ymlvars>>

\* load_mbox(filepath): the mailbox is opened
LoadMboxCall ==
    /\ mb_pc = "idle"
    /\ \E n \in 0 .. MaxMessages :
          mbox' \in [1 .. n -> [subject : {Null, "", "A", "A (1)", EmptySubject},
                                encodes : BOOLEAN]]
    /\ mb_index' = 0
    /\ raw_messages' = {}
    /\ mb_pc' = "loop"
    /\ MboxFrame

\* one turn of the loop: the message is stored under its key, or skipped
\* with a warning when it does not encode
LoadMboxMessage ==
    /\ mb_pc = "loop"
    /\ mb_index < Len(mbox)
    /\ LET message == mbox[mb_index + 1]
           key == mbox_key(SubjectOf(message), 0, raw_messages)
       IN  raw_messages' = IF message.encodes
                           THEN SetItem(raw_messages, key, mb_index + 1)
                           ELSE raw_messages
    /\ mb_index' = mb_index + 1
    /\ UNCHANGED <<mbox, mb_pc>>
    /\ MboxFrame

\* the loop is over: return raw_messages
LoadMboxReturn ==
    /\ mb_pc = "loop"
    /\ mb_index = Len(mbox)
    /\ mb_pc' = "done"
    /\ UNCHANGED <<mbox, mb_index, raw_messages>>
    /\ MboxFrame

MboxInit ==
    /\ environ = [SUBLIME_API_KEY |-> Unset, SUBLIME_SAVE_DIR |-> Unset, BASE_URL |-> Unset]
    /\ config_file = NoConfigFile
    /\ ApiIdle
    /\ LdIdle
    /\ RestIdle

MboxNext ==
    \/ LoadMboxCall
    \/ LoadMboxMessage
    \/ LoadMboxReturn

SpecMbox == MboxInit /\ [][MboxNext]_vars

(***************************************************************************)
(* Properties of load_mbox                                                 *)
(***************************************************************************)
AllEncode == \A j \in DOMAIN mbox : mbox[j].encodes

\* the step that handles message number mb_index + 1
MessageStep == mb_pc = "loop" /\ mb_index' = mb_index + 1

CurrentSubject == SubjectOf(mbox[mb_index + 1])

FirstWithSubject ==
    \A j \in 1 .. mb_index : SubjectOf(mbox[j]) # CurrentSubject

Numbered(subject, n) == subject \o " (" \o Str(n) \o ")"

\* the smallest n >= 1 for which "S (n)" is not a key yet
SmallestFree(subject, d) ==
    CHOOSE n \in 1 .. (MaxMessages + 1) :
        /\ Numbered(subject, n) \notin Keys(d)
        /\ \A m \in 1 .. (n - 1) : Numbered(subject, m) \in Keys(d)

\* the message of this step has been added and no entry has been lost
StoredUnder(key) ==
    /\ key \notin Keys(raw_messages)
    /\ raw_messages' = raw_messages \cup {[key |-> key, msg |-> mb_index + 1]}

\* one entry per message once the call has returned
OneEntryPerMessage ==
    (mb_pc = "done" /\ AllEncode) =>
        /\ Cardinality(raw_messages) = Len(mbox)
        /\ \A j \in DOMAIN mbox : \E e \in raw_messages : e.msg = j

\* C16, as stated: no message overwrites another; the first message with
\* subject S is stored under S and a later one, whose key is taken, under
\* "S (n)" for the smallest free n >= 1; no subject counts as
\* "[Empty Subject]".
C16_FirstSubjectKeepsKey ==
    [][(MessageStep /\ AllEncode) =>
          /\ FirstWithSubject => StoredUnder(CurrentSubject)
          /\ ~FirstWithSubject =>
                StoredUnder(Numbered(CurrentSubject,
                                     SmallestFree(CurrentSubject, raw_messages)))]_vars

\* C16, as amended: no message overwrites another and the map returned has
\* one entry per message; a message whose subject S is not yet a key is
\* stored under S, and a message whose key is taken under "S (n)" for the
\* smallest n >= 1 not in use; no subject counts as "[Empty Subject]".
C16_FreeKeyOrNumbered ==
    /\ [][(MessageStep /\ AllEncode) =>
            /\ CurrentSubject \notin Keys(raw_messages) => StoredUnder(CurrentSubject)
            /\ CurrentSubject \in Keys(raw_messages) =>
                  StoredUnder(Numbered(CurrentSubject,
                                       SmallestFree(CurrentSubject, raw_messages)))]_vars
    /\ []OneEntryPerMessage

C16_Witness ==
    /\ mb_pc = "done"
    /\ AllEncode
    /\ Len(mbox) = 3
    /\ mbox[1].subject = Null /\ mbox[2].subject = "" /\ mbox[3].subject = EmptySubject
    /\ Keys(raw_messages) = {EmptySubject, "[Empty Subject] (1)", "[Empty Subject] (2)"}

(***************************************************************************)
(* load_yml (src/sublime/util.py)                                          *)
(***************************************************************************)
\* an item of a "rules" or "queries" list: a mapping, whose keys are Unset
\* when it lacks them, or a scalar; other is a key the loader has no use for
YamlMappingItem(source, name, other) ==
    [is_dict |-> TRUE, source |-> source, name |-> name, other |-> other]

YamlItems ==
    {YamlMappingItem("s1", "n1", "x"), YamlMappingItem("s2", Unset, Unset),
     YamlMappingItem(Unset, "n3", Unset),
     [is_dict |-> FALSE, source |-> Unset, name |-> Unset, other |-> Unset]}

\* what the key "rules" or "queries" holds: nothing (the key is absent),
\* null, or a list
YamlAbsent == [t |-> "absent", items |-> <<>>]
YamlNull == [t |-> "null", items |-> <<>>]
YamlList(items) == [t |-> "list", items |-> items]

YamlLists == {YamlAbsent, YamlNull, YamlList(<<>>)} \cup {YamlList(<<item>>) : item \in YamlItems}

\* the mappings yaml.load can give
YamlMappings ==
    [t : {"mapping"}, rules : YamlLists, queries : YamlLists,
     type : {Unset, Null, "rule", "query", "detection"},
     source : {Unset, "", "s"}, name : {Unset, "n"}, other : {Unset, "x"}]

\* documents yaml.load gives that are no mapping: an empty file, a list, a scalar
OtherDocuments == {[t |-> "None"], [t |-> "list"], [t |-> "str"]}

\* yml_file is None
NoYmlFile == [t |-> "nofile"]

\* `not rules_and_queries_yaml` for a mapping
EmptyMapping(doc) ==
    /\ doc.rules = YamlAbsent
    /\ doc.queries = YamlAbsent
    /\ \A k \in {"type", "source", "name", "other"} : doc[k] = Unset

\* dict.get(key, []) for the two lists
GetList(doc, key) == IF doc[key] = YamlAbsent THEN YamlList(<<>>) ELSE doc[key]

\* `not value` for what a list key can hold
Falsy(value) == value.t = "null" \/ value.items = <<>>

YmlRaise(exc) == [kind |-> "raise", exc |-> exc, rules |-> <<>>, queries |-> <<>>]

YmlReturn(rules, queries) == [kind |-> "return", exc |-> "", rules |-> rules, queries |-> queries]

\* safe_yaml_filter: the test it begins with, and the record it returns
HasSource(yaml_dict) == yaml_dict.source \notin {Unset, Null, ""}

safe_yaml_filter(yaml_dict) ==
    [source |-> yaml_dict.source,
     name |-> IF yaml_dict.name = Unset THEN Null ELSE yaml_dict.name]

\* list.append(rule_or_query_yaml): the list with the mapping as its last item
Append_(list, doc) ==
    YamlList(Append(list.items, YamlMappingItem(doc.source, doc.name, doc.other)))

\* one of the two loops: the exception it ends with, "" for none
LoopError(list) ==
    IF list.t = "null" THEN "TypeError"
    ELSE IF \E j \in DOMAIN list.items :
               ~list.items[j].is_dict \/ ~HasSource(list.items[j])
    THEN "LoadRuleError"
    ELSE ""

\* the two loops and the return
FilterBoth(rules_yaml, queries_yaml) ==
    IF LoopError(rules_yaml) # "" THEN YmlRaise(LoopError(rules_yaml))
    ELSE IF LoopError(queries_yaml) # "" THEN YmlRaise(LoopError(queries_yaml))
    ELSE YmlReturn([j \in DOMAIN rules_yaml.items |-> safe_yaml_filter(rules_yaml.items[j])],
                   [j \in DOMAIN queries_yaml.items |-> safe_yaml_filter(queries_yaml.items[j])])

\* load_yml(yml_file, ignore_errors)
load_yml(doc, ignore) ==
    IF doc = NoYmlFile
    THEN IF ignore THEN YmlReturn(<<>>, <<>>) ELSE YmlRaise("LoadRuleError")
    ELSE IF doc.t # "mapping" \/ EmptyMapping(doc)
    THEN IF ignore THEN YmlReturn(<<>>, <<>>) ELSE YmlRaise("LoadRuleError")
    ELSE LET rules_yaml == GetList(doc, "rules")
             queries_yaml == GetList(doc, "queries")
             type == IF doc.type = Unset THEN "query" ELSE doc.type
         IN  IF Falsy(rules_yaml) /\ Falsy(queries_yaml)
             THEN IF type \notin {"rule", "query"}
                  THEN IF ignore THEN YmlReturn(<<>>, <<>>)
                       ELSE YmlRaise("LoadRuleError")
                  ELSE IF type = "rule"
                  THEN IF rules_yaml.t = "null" THEN YmlRaise("AttributeError")
                       ELSE FilterBoth(Append_(rules_yaml, doc), queries_yaml)
                  ELSE IF queries_yaml.t = "null" THEN YmlRaise("AttributeError")
                       ELSE FilterBoth(rules_yaml, Append_(queries_yaml, doc))
             ELSE FilterBoth(rules_yaml, queries_yaml)

\* what the load_yml steps leave alone
YmlFrame == UNCHANGED <<ldvars, apivars, cfgvars, echovars, anvars, mboxvars>>

\* load_yml is called on a file, or on None
LoadYmlCall ==
    /\ yml_pc = "idle"
    /\ yml_file' \in YamlMappings \cup OtherDocuments \cup {NoYmlFile}
    /\ yml_ignore' \in BOOLEAN
    /\ yml_pc' = "called"
    /\ yml_result' = NoYmlResult
    /\ YmlFrame

\* the call returns or raises
LoadYmlReturn ==
    /\ yml_pc = "called"
    /\ yml_result' = load_yml(yml_file, yml_ignore)
    /\ yml_pc' = "done"
    /\ UNCHANGED <<yml_file, yml_ignore>>
    /\ YmlFrame

YmlInit ==
    /\ environ = [SUBLIME_API_KEY |-> Unset, SUBLIME_SAVE_DIR |-> Unset, BASE_URL |-> Unset]
    /\ config_file = NoConfigFile
    /\ ApiIdle
    /\ LdIdle
    /\ RestIdle

YmlNext ==
    \/ LoadYmlCall
    \/ LoadYmlReturn

SpecYml == YmlInit /\ [][YmlNext]_vars

(***************************************************************************)
(* Properties of load_yml                                                  *)
(***************************************************************************)
\* a list key holds a non-empty list
NonEmptyList(value) == value.t = "list" /\ Len(value.items) > 0

\* the call is over and its file was a mapping with neither a non-empty
\* "rules" nor a non-empty "queries" list
SingleRecordDone ==
    /\ yml_pc = "done"
    /\ yml_file.t = "mapping"
    /\ ~NonEmptyList(yml_file.rules)
    /\ ~NonEmptyList(yml_file.queries)

\* the record the claim expects of the mapping
RecordOf(doc) ==
    [source |-> doc.source, name |-> IF doc.name = Unset THEN Null ELSE doc.name]

\* what the claim leaves open to the call; a source that is the empty
\* string may count as a source or as none
ExpectedOfSingleRecord(doc, ignore) ==
    IF doc.type \notin {Unset, "rule", "query"}
    THEN IF ignore THEN {YmlReturn(<<>>, <<>>)} ELSE {YmlRaise("LoadRuleError")}
    ELSE IF doc.source = Unset THEN {YmlRaise("LoadRuleError")}
    ELSE LET returned == IF doc.type = "rule" THEN YmlReturn(<<RecordOf(doc)>>, <<>>)
                         ELSE YmlReturn(<<>>, <<RecordOf(doc)>>)
         IN  IF doc.source = "" THEN {YmlRaise("LoadRuleError"), returned} ELSE {returned}

\* C17: a mapping with neither a non-empty "rules" nor a non-empty "queries"
\* list is one record: a rule iff its type is "rule", a query when the type
\* is "query" or absent; another type gives LoadRuleError, or two empty lists
\* under ignore_errors; a record without source gives LoadRuleError whatever
\* ignore_errors is; a returned record has the keys source and name only.
C17_SingleRecordClassified ==
    SingleRecordDone => yml_result \in ExpectedOfSingleRecord(yml_file, yml_ignore)

\* the part of C17 the code keeps: the same, for a mapping that is not empty
\* and whose "rules" and "queries" are lists where it has them
C17_ListsOrAbsent ==
    (/\ SingleRecordDone
     /\ ~EmptyMapping(yml_file)
     /\ yml_file.rules.t # "null"
     /\ yml_file.queries.t # "null")
        => yml_result \in ExpectedOfSingleRecord(yml_file, yml_ignore)

====
